---- MODULE Spec2Model ----
(***************************************************************************)
(* Model of the ARMv7-A (Cortex-A) debug target driver src/src/cortexa.c.  *)
(*                                                                         *)
(* The driver is single threaded: every facade operation runs to its end   *)
(* before the next one starts.  The processor and the debug link are the   *)
(* environment: they change between two operations and between two polls   *)
(* of a polling loop.  cortexa_reset and cortexa_halt_resume are split at  *)
(* their polling points (variable pc); the polls of cortexa_attach are an  *)
(* input of its action: the poll at which the core is found halted and the *)
(* poll at which the transport fails.                                      *)
(***************************************************************************)
EXTENDS Integers, Sequences, FiniteSets, TLC

(***************************************************************************)
(* Bounds of the model.                                                    *)
(***************************************************************************)
\* Largest value of the DBGDIDR[27:24] field (number of comparators - 1)
\* a probed part advertises.
MaxBrps == 1

(***************************************************************************)
(* Program constants, with the values of the source.                       *)
(***************************************************************************)
SIGINT == 2
SIGTRAP == 5
SIGLOST == 29

DBGDSCR_EXTDCCMODE_STALL == 1048576
DBGDSCR_EXTDCCMODE_FAST == 2097152
DBGDSCR_EXTDCCMODE_MASK == 3145728
DBGDSCR_HDBGEN == 16384
DBGDSCR_ITREN == 8192
DBGDSCR_INTDIS == 2048
DBGDSCR_SDABORT_L == 64
DBGDSCR_MOE_MASK == 60
DBGDSCR_MOE_HALT_REQ == 0
DBGDSCR_RESTARTED == 2
DBGDSCR_HALTED == 1

DBGDRCR_CSE == 4
DBGDRCR_RRQ == 2
DBGDRCR_HRQ == 1

DBGBCR_INST_MISMATCH == 4194304
DBGBCR_BAS_ANY == 480
DBGBCR_BAS_LOW_HW == 96
DBGBCR_BAS_HIGH_HW == 384
DBGBCR_EN == 1

CPSR_THUMB == 32

\* tries = 10 in cortexa_attach
AttachTries == 10

(***************************************************************************)
(* Bit operations of C on the naturals below 2^32.                         *)
(***************************************************************************)
\* x & mask != 0, for a mask of one bit
Test(x, mask) == (x \div mask) % 2 = 1

\* x | mask, for a mask of one bit
SetBit(x, mask) == IF Test(x, mask) THEN x ELSE x + mask

\* x & ~mask, for a mask of one bit
ClearBit(x, mask) == IF Test(x, mask) THEN x - mask ELSE x

\* x & mask for the mask of a field of `width` (a power of two) values whose
\* lowest bit is `low`
Field(x, low, width) == ((x \div low) % width) * low

\* x & ~1 and x & ~3
AndNot1(x) == x - (x % 2)

AndNot3(x) == x - (x % 4)

\* (x & ~DBGDSCR_EXTDCCMODE_MASK) | mode
SetDccMode(x, mode) == x - Field(x, DBGDSCR_EXTDCCMODE_STALL, 4) + mode

(***************************************************************************)
(* uint32_t.  A 32-bit word w is held as the integer congruent to w modulo *)
(* 2^32 in -2^31 .. 2^31 - 1: 0xfffffffc is -4 and 0x80000000 is MinWord.  *)
(* \div and % round towards minus infinity, so Test, Field and AndNot3    *)
(* read the bits of the word from this integer unchanged.                  *)
(***************************************************************************)
MaxWord == 2147483647

MinWord == (-2147483647) - 1

\* (x + y) mod 2^32
Add32(x, y) ==
    IF x >= 0 /\ y >= 0 /\ x > MaxWord - y THEN ((x - MaxWord) - 1 + y) + MinWord
    ELSE IF x < 0 /\ y < 0 /\ x < MinWord - y THEN (x - MinWord) + (y - MinWord)
    ELSE x + y

\* (-y) mod 2^32
Neg32(y) == IF y = MinWord THEN MinWord ELSE 0 - y

\* (x - y) mod 2^32
Sub32(x, y) == Add32(x, Neg32(y))

\* x < y as the comparison of two uint32_t
Below32(x, y) == IF (x < 0) = (y < 0) THEN x < y ELSE y < 0

(***************************************************************************)
(* Values the inputs are drawn from.                                       *)
(***************************************************************************)
\* Breakpoint addresses: 0, and one above a word with bits 0 and 1 set.
AddrSet == {0, 7}

\* Breakpoint lengths gdb sends (Thumb and ARM).
LenSet == {2, 4}

\* DSCR.MOE values the core reports: halt request, breakpoint, and the
\* largest one.
MoeSet == {0, 1, 15}

\* The registers of the core: the restart address, CPSR, the scratch
\* registers r0, r1 and r13 (sp), rn for each of r2..r12 and r14, FPSCR, and
\* the two halves of dn for each of d0..d15.
Regs(p, c) ==
    [pc |-> p, cpsr |-> c, r0 |-> 10, r1 |-> 11, rn |-> 12, r13 |-> 13,
     fpscr |-> 14, d_lo |-> 20, d_hi |-> 21]

RegNames == DOMAIN Regs(0, 0)

\* The registers run control depends on.  A specification follows either
\* these or all of RegNames; the ones it follows are the domain of cpu.
ControlRegs == {"pc", "cpsr"}

\* Core c restricted to the registers in names.
Follow(c, names) == [n \in names |-> c[n]]

\* c with register n set to v, when n is followed.
Put(c, n, v) == IF n \in DOMAIN c THEN [c EXCEPT ![n] = v] ELSE c

\* Register n of c, when n is followed.
Get(c, n) == IF n \in DOMAIN c THEN c[n] ELSE 0

\* The states the core can be halted at: one in ARM state, one in Thumb
\* state.
CpuSet == {Regs(4, 19), Regs(6, 51)}

\* Restart addresses at both ends of the address space and on both sides of
\* 0x80000000, in ARM state and in Thumb state.
PcSet ==
    {Regs(p, 19) : p \in {0, 4, -4, -8, MaxWord - 3, MaxWord - 7}}
        \cup {Regs(p, 51) : p \in {0, 6, -2, -4, MaxWord - 1, MaxWord - 3}}

\* What one APB access can end in: the word is transferred, or the
\* transport times out, or it raises an error.
ReadResults == {"ok", "timeout", "error"}

VARIABLES
    \* struct cortexa_priv
    ahb,                \* TRUE when an AHB access port is bound
    hw_breakpoint_max,
    hw_breakpoint,      \* 0 .. hw_breakpoint_max-1 -> 0 or (addr | 1)
    bpc0,
    mmu_fault,
    reg_cache,          \* r[0], r[1], r[n], r[13], r[15], cpsr, fpscr, d[n]
    \* the debug register bank and the core behind it
    dscr,               \* DBGDSCR as the next read returns it
    bvr,                \* DBGBVR(i)
    bcr,                \* DBGBCR(i)
    rrq,                \* a restart request is pending in the core
    cpu,                \* the registers of the core, as Regs lays them out
    \* transport and platform
    dp_error,           \* sticky error state of the debug port
    srst,               \* system reset line asserted
    \* position of the driver
    pc,                 \* "idle" or the loop the driver is in
    attached,           \* a session is open (attach returned true)
    lost,               \* target_list_free() has run
    \* history
    dscr_wr,            \* control fields of the last value written to DBGDSCR
    rrq_open,           \* RRQ was written and no later DSCR read showed RESTARTED
    resumed,            \* halt_resume ran, and neither attach nor a reported halt since
    stepped,            \* the step argument of the last halt_resume
    written,            \* the register write being followed through a resume
    last                \* the last operation entered, and what it returned

vars == <<ahb, hw_breakpoint_max, hw_breakpoint, bpc0, mmu_fault, reg_cache,
          dscr, bvr, bcr, rrq, cpu, dp_error, srst, pc, attached, lost,
          dscr_wr, rrq_open, resumed, stepped, written, last>>

Slots == 0 .. (hw_breakpoint_max - 1)

\* The number of live entries of a breakpoint table.
Live(tab) == Cardinality({i \in DOMAIN tab : tab[i] % 2 = 1})

\* What an operation returned: its name, its result as text ("0", "-1",
\* "true", "void", ...), whether it wrote any register of the debug bank
\* and, for cortexa_attach, why its polling loop was left; for a slow write,
\* the number of byte stores it issued and whether it wrote DBGDRCR.CSE; for
\* cortexa_reset, what its last DBGDIDR read ended in; for a fast memory
\* access, the cache lines it issued the cache operation for, in order.
Returned(op, ret, wrote) ==
    [op |-> op, ret |-> ret, wrote |-> wrote, why |-> "none", strb |-> 0,
     cse |-> FALSE, rd |-> "none", lines |-> <<>>, checks |-> 0, len |-> 0]

\* No register write is being followed.  A write is followed from the
\* operation that makes it (stage "written") through the halt_resume that
\* follows it ("resumed") to the halt_wait that reports the next halt
\* ("observed"), as long as the program has not run in between.
NoWrite ==
    [reg |-> "none", val |-> 0, was |-> 0, via |-> "none", stage |-> "none"]

\* Following ends when the debugger uses the core between halt_resume and
\* the report of the next halt.
Undisturbed(w) == IF w.stage = "resumed" THEN NoWrite ELSE w

\* A bool result as text.
Bool(b) == IF b THEN "true" ELSE "false"

\* An operation that polls has been entered and has not returned.
Entered(op) ==
    [op |-> op, ret |-> "pending", wrote |-> TRUE, why |-> "none", strb |-> 0,
     cse |-> FALSE, rd |-> "none", lines |-> <<>>, checks |-> 0, len |-> 0]

(***************************************************************************)
(* The debug register bank: what the hardware does with a write.           *)
(***************************************************************************)
\* DBGDSCR after the driver writes v: the status fields (HALTED, RESTARTED,
\* MOE) are read-only and keep their value, the control fields (EXTDCCMODE,
\* HDBGEN, ITREN, INTDIS) take the written value.
HwDscrWrite(cur, v) ==
    (cur % 64) + Field(v, DBGDSCR_EXTDCCMODE_STALL, 4)
               + Field(v, DBGDSCR_HDBGEN, 2)
               + Field(v, DBGDSCR_ITREN, 2)
               + Field(v, DBGDSCR_INTDIS, 2)

\* The control fields of a value written to DBGDSCR.
Ctl(v) == HwDscrWrite(0, v)

\* DBGDSCR after the driver writes v to DBGDRCR: a restart request to a
\* halted core clears RESTARTED until the core has left debug state.
HwDrcrDscr(cur, v) ==
    IF Test(v, DBGDRCR_RRQ) /\ Test(cur, DBGDSCR_HALTED)
    THEN ClearBit(cur, DBGDSCR_RESTARTED)
    ELSE cur

\* The restart request pending after the driver writes v to DBGDRCR.
HwDrcrRrq(cur, pending, v) ==
    pending \/ (Test(v, DBGDRCR_RRQ) /\ Test(cur, DBGDSCR_HALTED))

\* DBGDSCR once the running core has entered debug state with MOE = moe.
HwHalted(cur, moe) == cur - Field(cur, 4, 16) + 4 * moe + DBGDSCR_HALTED

\* DBGDSCR once the core runs: MOE is only defined in debug state and reads
\* 0 while the core runs.
HwRunning(cur) ==
    SetBit(ClearBit(cur - Field(cur, 4, 16), DBGDSCR_HALTED), DBGDSCR_RESTARTED)

\* The value `mov r0, pc` delivers in debug state: the restart address plus
\* the pipeline offset of the instruction set state.
RawPc(c) == Add32(c.pc, IF Test(c.cpsr, CPSR_THUMB) THEN 4 ELSE 8)

\* rrq_open after a DSCR read that returned v.
Observed(open, v) == open /\ ~Test(v, DBGDSCR_RESTARTED)

\* An APB transaction that may leave the debug port's sticky error set.
Xfer(f) == dp_error' = (dp_error \/ f)

(***************************************************************************)
(* Register cache.                                                         *)
(***************************************************************************)
\* The entries of reg_cache for the registers in names: r[15] holds pc.
CacheNames(names) == {IF n = "pc" THEN "r15" ELSE n : n \in names}

\* struct cortexa_priv's reg_cache as cortexa_probe's calloc leaves it.
NoCache(names) == [n \in CacheNames(names) |-> 0]

\* The reads of cortexa_regs_read_internal, before its last statement: r0 to
\* r14 through the DCC, then pc, CPSR and FPSCR through r0, then each d[i]
\* through r0 and r1.
regs_read_raw(c) ==
    [n \in CacheNames(DOMAIN c) |-> IF n = "r15" THEN RawPc(c) ELSE c[n]]

\* The adjustment with the ARM offset whatever the instruction set state.
pc_adjust_always_arm(cache) == [cache EXCEPT !.r15 = Sub32(@, 8)]

\* `r[15] -= (cpsr & CPSR_THUMB) ? 4 : 8` on a uint32_t.
pc_adjust(cache) ==
    [cache EXCEPT !.r15 = Sub32(@, IF Test(cache.cpsr, CPSR_THUMB) THEN 4 ELSE 8)]

\* cortexa_regs_read_internal: the snapshot taken of core c.
regs_read_internal(c) == pc_adjust(regs_read_raw(c))

\* The core after cortexa_regs_read_internal: the last `vmov r0, r1, d15`
\* has left the halves of d15 in r0 and r1.
regs_read_core(c) == Put(Put(c, "r0", Get(c, "d_lo")), "r1", Get(c, "d_hi"))

\* The steps of cortexa_regs_write_internal on a core in debug state.
flush_vfp(c, cache) ==
    Put(Put(Put(Put(c, "r1", Get(cache, "d_hi")), "r0", Get(cache, "d_lo")),
            "d_hi", Get(cache, "d_hi")), "d_lo", Get(cache, "d_lo"))

flush_fpscr(c, cache) ==
    Put(Put(c, "r0", Get(cache, "fpscr")), "fpscr", Get(cache, "fpscr"))

flush_cpsr(c, cache) == Put(Put(c, "r0", cache.cpsr), "cpsr", cache.cpsr)

flush_pc(c, cache) == Put(Put(c, "r0", cache.r15), "pc", cache.r15)

\* A flush that leaves out the loop over r0..r14.
flush_gp_skipped(c, cache) == c

flush_gp(c, cache) ==
    Put(Put(Put(Put(c, "r0", Get(cache, "r0")), "r1", Get(cache, "r1")),
            "rn", Get(cache, "rn")), "r13", Get(cache, "r13"))

\* A flush that restores r0..r14 first and then goes through r0 and r1 for
\* the other registers.
regs_write_internal_gp_first(c, cache, halted) ==
    IF halted
    THEN flush_pc(flush_cpsr(flush_fpscr(flush_vfp(flush_gp(c, cache), cache),
                                         cache), cache), cache)
    ELSE c

\* cortexa_regs_write_internal: the core after the cache is flushed to it.
\* Injected instructions execute only in debug state.
regs_write_internal(c, cache, halted) ==
    IF halted
    THEN flush_gp(flush_pc(flush_cpsr(flush_fpscr(flush_vfp(c, cache), cache),
                                      cache), cache), cache)
    ELSE c

\* The core after a debugger access has left v in scratch register r0.
scratch_r0(c, v, halted) == IF halted THEN Put(c, "r0", v) ELSE c

(***************************************************************************)
(* Breakpoints.                                                            *)
(***************************************************************************)
bp_bas(addr, len) ==
    IF len = 4 THEN DBGBCR_BAS_ANY
    ELSE IF Test(addr, 2) THEN DBGBCR_BAS_HIGH_HW
    ELSE DBGBCR_BAS_LOW_HW

\* The loop of cortexa_set_hw_bp with its scan started at slot 1.
FirstFree_from1(tab, max) ==
    LET free == {i \in 1 .. (max - 1) : tab[i] % 2 = 0}
    IN IF free = {} THEN max ELSE CHOOSE i \in free : \A j \in free : i <= j

\* The loop of cortexa_set_hw_bp: the first slot whose low bit is clear, or
\* max when there is none.
FirstFree(tab, max) ==
    LET free == {i \in 0 .. (max - 1) : tab[i] % 2 = 0}
    IN IF free = {} THEN max ELSE CHOOSE i \in free : \A j \in free : i <= j

\* The loop of cortexa_clear_hw_bp: the first slot whose entry, the low bit
\* ignored, equals addr, or max when there is none.
FindAddr(tab, max, addr) ==
    LET hit == {i \in 0 .. (max - 1) : AndNot1(tab[i]) = addr}
    IN IF hit = {} THEN max ELSE CHOOSE i \in hit : \A j \in hit : i <= j

\* The operations of the target facade are called one at a time on an
\* attached target.
Facade == pc = "idle" /\ attached /\ ~lost

cortexa_set_hw_bp(addr, len, f) ==
    /\ Facade
    /\ LET i == FirstFree(hw_breakpoint, hw_breakpoint_max)
           bpc == bp_bas(addr, len) + DBGBCR_EN
       IN IF i = hw_breakpoint_max
          THEN /\ last' = Returned("set_hw_bp", "-1", FALSE)
               /\ UNCHANGED <<hw_breakpoint, bvr, bcr, bpc0, dp_error>>
          ELSE /\ hw_breakpoint' = [hw_breakpoint EXCEPT ![i] = SetBit(addr, 1)]
               /\ bvr' = [bvr EXCEPT ![i] = AndNot3(addr)]
               /\ bcr' = [bcr EXCEPT ![i] = bpc]
               /\ bpc0' = IF i = 0 THEN bpc ELSE bpc0
               /\ Xfer(f)
               /\ last' = Returned("set_hw_bp", "0", TRUE)
    /\ UNCHANGED <<stepped, written, ahb, hw_breakpoint_max, mmu_fault, reg_cache, dscr, rrq, cpu,
                   srst, pc, attached, resumed, lost, dscr_wr, rrq_open>>

cortexa_clear_hw_bp(addr, len, f) ==
    /\ Facade
    /\ LET i == FindAddr(hw_breakpoint, hw_breakpoint_max, addr)
       IN IF i = hw_breakpoint_max
          THEN /\ last' = Returned("clear_hw_bp", "-1", FALSE)
               /\ UNCHANGED <<hw_breakpoint, bcr, bpc0, dp_error>>
          ELSE /\ hw_breakpoint' = [hw_breakpoint EXCEPT ![i] = 0]
               /\ bcr' = [bcr EXCEPT ![i] = 0]
               /\ bpc0' = IF i = 0 THEN 0 ELSE bpc0
               /\ Xfer(f)
               /\ last' = Returned("clear_hw_bp", "0", TRUE)
    /\ UNCHANGED <<stepped, written, ahb, hw_breakpoint_max, mmu_fault, reg_cache, dscr, bvr, rrq,
                   cpu, srst, pc, attached, resumed, lost, dscr_wr, rrq_open>>

(***************************************************************************)
(* Errors.                                                                 *)
(***************************************************************************)
\* The value cortexa_check_error returns.  adiv5_dp_error() is only called
\* when an AHB access port is bound.
check_error_ret(hasAhb, dperr, fault) == (hasAhb /\ dperr) \/ fault

\* The debug port's error state after cortexa_check_error: adiv5_dp_error()
\* reads and clears it.
check_error_dp(hasAhb, dperr) == IF hasAhb THEN FALSE ELSE dperr

\* mmu_fault after cortexa_check_error.
check_error_fault(fault) == FALSE

cortexa_check_error ==
    /\ Facade
    /\ mmu_fault' = check_error_fault(mmu_fault)
    /\ dp_error' = check_error_dp(ahb, dp_error)
    /\ last' = Returned("check_error",
                        Bool(check_error_ret(ahb, dp_error, mmu_fault)), FALSE)
    /\ UNCHANGED <<stepped, written, ahb, hw_breakpoint_max, hw_breakpoint, bpc0, reg_cache, dscr,
                   bvr, bcr, rrq, cpu, srst, pc, attached, resumed, lost, dscr_wr,
                   rrq_open>>

(***************************************************************************)
(* Register access.                                                        *)
(***************************************************************************)
\* The general purpose registers written: r0 (a scratch register of the
\* snapshot, as r1 is), one of r2..r12 and r14, and r13.
GpNames == {"r0", "rn", "r13"}

\* Values written to a register: 0xdeadbeef.
ValSet == {-559038737}

\* The write of v to register n that is followed from here on: through the
\* cache or through the DCC, with the value reg_cache holds for n after it.
Followed(n, v, via, cache, halted) ==
    IF halted /\ n \in DOMAIN cache
    THEN [reg |-> n, val |-> v, was |-> cache[n], via |-> via,
          stage |-> "written"]
    ELSE NoWrite

\* cortexa_regs_write with a buffer that is the cache with r[n] replaced by v.
cortexa_regs_write(n, v) ==
    /\ Facade
    /\ reg_cache' = Put(reg_cache, n, v)
    /\ written' = Followed(n, v, "cache", Put(reg_cache, n, v),
                           Test(dscr, DBGDSCR_HALTED))
    /\ last' = Returned("regs_write", "void", FALSE)
    /\ UNCHANGED <<stepped, ahb, hw_breakpoint_max, hw_breakpoint, bpc0,
                   mmu_fault, dscr, bvr, bcr, rrq, cpu, dp_error, srst, pc,
                   attached, resumed, lost, dscr_wr, rrq_open>>

\* cortexa_regs_read copies reg_cache to the caller's buffer.
cortexa_regs_read ==
    /\ Facade
    /\ last' = Returned("regs_read", "void", FALSE)
    /\ UNCHANGED <<stepped, written, ahb, hw_breakpoint_max, hw_breakpoint,
                   bpc0, mmu_fault, reg_cache, dscr, bvr, bcr, rrq, cpu,
                   dp_error, srst, pc, attached, resumed, lost, dscr_wr,
                   rrq_open>>

\* write_gpreg on its own: v goes through DBGDTRRX into register n of the
\* core, and reg_cache is not touched.
write_gpreg(n, v, f) ==
    /\ Facade
    /\ cpu' = IF Test(dscr, DBGDSCR_HALTED) THEN Put(cpu, n, v) ELSE cpu
    /\ written' = Followed(n, v, "proxy", reg_cache, Test(dscr, DBGDSCR_HALTED))
    /\ Xfer(f)
    /\ last' = Returned("write_gpreg", "void", TRUE)
    /\ UNCHANGED <<stepped, ahb, hw_breakpoint_max, hw_breakpoint, bpc0,
                   mmu_fault, reg_cache, dscr, bvr, bcr, rrq, srst, pc,
                   attached, resumed, lost, dscr_wr, rrq_open>>

(***************************************************************************)
(* Memory access.  What the accesses transfer is not part of the state;    *)
(* their effects on the driver and on DBGDSCR are.                         *)
(***************************************************************************)
\* va_to_pa with the fault bit assigned rather than latched.
va_to_pa_fault_assign(fault, par) == Test(par, 1)

\* va_to_pa: mmu_fault after a translation whose PAR read returned par.
va_to_pa_fault(fault, par) == IF Test(par, 1) THEN TRUE ELSE fault

\* mmu_fault after the abort check that ends a slow access; dscrRead is the
\* DBGDSCR value that check reads.
abort_fault(fault, dscrRead) ==
    IF Test(dscrRead, DBGDSCR_SDABORT_L) THEN TRUE ELSE fault

\* The DBGDSCR value the fast-DCC block of a slow access writes last.
dcc_restore(dscrRead) ==
    SetDccMode(SetDccMode(dscrRead, DBGDSCR_EXTDCCMODE_FAST),
               DBGDSCR_EXTDCCMODE_STALL)

\* PAR values a translation returns: a page, and a fault.
ParSet == {4096, 1}

\* The DBGDSCR bit 6 the abort check of a slow access reads.
AbortSet == {0, DBGDSCR_SDABORT_L}

\* The longest write the model makes.
MaxLen == 4

\* The abort check of a slow write that reads SDABORT_L set: each of them,
\* and none.
AbortAt == 1 .. (MaxLen + 1)

\* CACHE_LINE_LENGTH
CACHE_LINE_LENGTH == 32

\* The iterations after which the cache loop is taken not to end.
MaxLines == 4

\* addr & ~(CACHE_LINE_LENGTH-1)
LineOf(addr) == addr - (addr % CACHE_LINE_LENGTH)

\* `cl < src + len`: cl is a uint32_t and len a size_t.  Where size_t has 32
\* bits the sum wraps; where it has 64 (wide) the sum is not reduced, and is
\* above every uint32_t once it has passed 2^32.
cache_loop_cond(cl, src, len, wide) ==
    LET sum == Add32(src, len)
        carry == len > 0 /\ Below32(sum, src)
    IN IF wide /\ carry THEN TRUE ELSE Below32(cl, sum)

\* The loop `for (cl = src & ~(CACHE_LINE_LENGTH-1); cl < src + len;
\* cl += CACHE_LINE_LENGTH)` from cl on, with n iterations left to follow:
\* the lines it issues the cache operation for, and whether it ends.
RECURSIVE cache_loop(_, _, _, _, _)
cache_loop(cl, src, len, wide, n) ==
    IF ~cache_loop_cond(cl, src, len, wide) THEN [lines |-> <<>>, ends |-> TRUE]
    ELSE IF n = 0 THEN [lines |-> <<>>, ends |-> FALSE]
    ELSE LET r == cache_loop(Add32(cl, CACHE_LINE_LENGTH), src, len, wide, n - 1)
         IN [lines |-> <<cl>> \o r.lines, ends |-> r.ends]

\* cortexa_mem_read and cortexa_mem_write differ in the cache operation they
\* inject (DCCMVAC, DCCIMVAC); op names which one ran.  Each turn of the
\* cache loop leaves the line address in r0, and va_to_pa the PAR value.  A
\* loop that does not end keeps the driver in it.
fast_mem(op, src, len, wide, par, f) ==
    /\ Facade /\ ahb
    /\ \E L \in {cache_loop(LineOf(src), src, len, wide, MaxLines)} :
          IF L.ends
          THEN /\ mmu_fault' = va_to_pa_fault(mmu_fault, par)
               /\ cpu' = scratch_r0(cpu, par, Test(dscr, DBGDSCR_HALTED))
               /\ last' = [Returned(op, "void", TRUE) EXCEPT !.lines = L.lines]
               /\ pc' = pc
          ELSE /\ mmu_fault' = mmu_fault
               /\ cpu' = scratch_r0(cpu, L.lines[Len(L.lines)],
                                    Test(dscr, DBGDSCR_HALTED))
               /\ last' = [Entered(op) EXCEPT !.lines = L.lines]
               /\ pc' = "cache_loop"
    /\ Xfer(f)
    /\ written' = Undisturbed(written)
    /\ UNCHANGED <<stepped, ahb, hw_breakpoint_max, hw_breakpoint, bpc0, reg_cache, dscr,
                   bvr, bcr, rrq, srst, attached, resumed, lost, dscr_wr,
                   rrq_open>>

cortexa_mem_read(src, len, wide, par, f) ==
    fast_mem("mem_read", src, len, wide, par, f)

cortexa_mem_write(dest, len, wide, par, f) ==
    fast_mem("mem_write", dest, len, wide, par, f)

\* `unsigned words = (len + (src & 3) + 3) / 4`
slow_read_words(src, len) == (len + (src % 4) + 3) \div 4

\* r0 after the fast-mode block of cortexa_slow_mem_read: the `ldc 14, cr5,
\* [r0], #4` runs when it is written to DBGITR and again on each of the
\* words + 1 reads of DBGDTRTX made in fast mode, adding 4 to r0 each time.
slow_read_r0(src, len) ==
    Add32(AndNot3(src), 4 * (slow_read_words(src, len) + 2))

\* The DBGDSCR value cortexa_slow_mem_read has written last when it is left:
\* rd is what its first read of DBGDTRTX ended in.  apb_read raises
\* EXCEPTION_TIMEOUT and EXCEPTION_ERROR (cortexa_halt_wait catches both),
\* nothing in cortexa_slow_mem_read catches them, and the write that
\* switches back to stall mode comes after the reads.
slow_read_dscr(rd, dscrRead) ==
    IF rd = "ok" THEN dcc_restore(dscrRead)
    ELSE SetDccMode(dscrRead, DBGDSCR_EXTDCCMODE_FAST)

cortexa_slow_mem_read(src, len, abort, rd, f) ==
    /\ Facade /\ ~ahb
    /\ \E v \in {slow_read_dscr(rd, dscr)} :
          /\ dscr_wr' = Ctl(v)
          /\ dscr' = HwDscrWrite(dscr, v)
          /\ mmu_fault' = IF rd = "ok"
                           THEN abort_fault(mmu_fault, HwDscrWrite(dscr, v) + abort)
                           ELSE mmu_fault
          /\ rrq_open' = IF rd = "ok" THEN Observed(rrq_open, dscr) ELSE rrq_open
    /\ cpu' = scratch_r0(cpu, IF rd = "ok" THEN slow_read_r0(src, len)
                                ELSE Add32(AndNot3(src), 4),
                         Test(dscr, DBGDSCR_HALTED))
    /\ Xfer(f)
    /\ last' = Returned("mem_read", IF rd = "ok" THEN "void" ELSE "exception", TRUE)
    /\ written' = Undisturbed(written)
    /\ UNCHANGED <<stepped, ahb, hw_breakpoint_max, hw_breakpoint, bpc0, reg_cache, bvr,
                   bcr, rrq, srst, pc, attached, resumed, lost>>

\* The path cortexa_slow_mem_write takes for (dest, len).
slow_write_path(dest, len) ==
    IF len = 0 THEN "none"
    ELSE IF dest % 4 # 0 \/ len % 4 # 0 THEN "bytes"
    ELSE "words"

\* The byte every store of a byte write carries.
DataByte == 171

\* A byte loop that goes on to the next byte after an abort.
RECURSIVE write_bytes_no_return(_, _, _)
write_bytes_no_return(left, n, at) ==
    IF left = 0 THEN [strb |-> n, checks |-> n, cse |-> at \in 1 .. n]
    ELSE write_bytes_no_return(left - 1, n + 1, at)

\* The loop of cortexa_slow_mem_write_bytes: left is len on entry to
\* `while (len--)`, n the stores issued so far, and the abort check that
\* follows store number `at` reads DBGDSCR.SDABORT_L set.  The result is the
\* number of `strb r0, [sp], #1` issued, the number of DBGDSCR reads, and
\* whether DBGDRCR.CSE was written and mmu_fault set.
RECURSIVE write_bytes(_, _, _)
write_bytes(left, n, at) ==
    IF left = 0 THEN [strb |-> n, checks |-> n, cse |-> FALSE]
    ELSE IF n + 1 = at THEN [strb |-> n + 1, checks |-> n + 1, cse |-> TRUE]
    ELSE write_bytes(left - 1, n + 1, at)

\* The core after a byte write of `strb` stores from dest: sp has advanced
\* past the bytes stored (the store that aborts does not write sp back) and
\* r0 holds the last byte.
write_bytes_core(c, dest, w, halted) ==
    IF halted
    THEN Put(Put(c, "r13", Add32(dest, w.strb - (IF w.cse THEN 1 ELSE 0))),
             "r0", IF w.strb = 0 THEN Get(c, "r0") ELSE DataByte)
    ELSE c

\* Which abort check of a slow write reads SDABORT_L: `at` counts the checks,
\* and a count past the last check is a write that does not abort.
cortexa_slow_mem_write(dest, len, at, f) ==
    /\ Facade /\ ~ahb
    /\ LET path == slow_write_path(dest, len)
           v == dcc_restore(dscr)
           w == write_bytes(len, 0, at)
           abort == IF at = 1 THEN DBGDSCR_SDABORT_L ELSE 0
           halted == Test(dscr, DBGDSCR_HALTED)
       IN CASE path = "none" ->
                 /\ last' = Returned("mem_write", "void", FALSE)
                 /\ UNCHANGED <<dscr, dscr_wr, mmu_fault, rrq_open, dp_error,
                                cpu>>
            [] path = "bytes" ->
                 /\ mmu_fault' = abort_fault(mmu_fault, IF w.cse THEN DBGDSCR_SDABORT_L
                                                         ELSE 0)
                 /\ rrq_open' = Observed(rrq_open, dscr)
                 /\ cpu' = write_bytes_core(cpu, dest, w, halted)
                 /\ Xfer(f)
                 /\ last' = [Returned("mem_write", "void", TRUE)
                                EXCEPT !.strb = w.strb, !.cse = w.cse,
                                       !.checks = w.checks, !.len = len]
                 /\ UNCHANGED <<dscr, dscr_wr>>
            [] path = "words" ->
                 /\ dscr_wr' = Ctl(v)
                 /\ dscr' = HwDscrWrite(dscr, v)
                 /\ mmu_fault' = abort_fault(mmu_fault, HwDscrWrite(dscr, v) + abort)
                 /\ rrq_open' = Observed(rrq_open, dscr)
                 /\ cpu' = scratch_r0(cpu, Add32(dest, len), halted)
                 /\ Xfer(f)
                 /\ last' = [Returned("mem_write", "void", TRUE)
                                EXCEPT !.cse = (abort # 0), !.len = len]
    /\ written' = IF len = 0 THEN written ELSE Undisturbed(written)
    /\ UNCHANGED <<stepped, ahb, hw_breakpoint_max, hw_breakpoint, bpc0, reg_cache, bvr,
                   bcr, rrq, srst, pc, attached, resumed, lost>>

(***************************************************************************)
(* Halt request and halt poll.                                             *)
(***************************************************************************)
\* A timeout of the DRCR write is caught and reported; nothing is returned.
cortexa_halt_request(f) ==
    /\ Facade
    /\ Xfer(f)
    /\ last' = Returned("halt_request", "void", TRUE)
    /\ UNCHANGED <<stepped, written, ahb, hw_breakpoint_max, hw_breakpoint, bpc0, mmu_fault,
                   reg_cache, dscr, bvr, bcr, rrq, cpu, srst, pc, attached, resumed, lost,
                   dscr_wr, rrq_open>>

\* The switch on DBGDSCR.MOE with its two signals exchanged.
halt_signal_swapped(v) ==
    IF Field(v, 4, 16) = 4 * DBGDSCR_MOE_HALT_REQ THEN SIGTRAP ELSE SIGINT

\* The switch on DBGDSCR.MOE.
halt_signal(v) ==
    IF Field(v, 4, 16) = 4 * DBGDSCR_MOE_HALT_REQ THEN SIGINT ELSE SIGTRAP

\* cortexa_halt_wait, as a function of what the DBGDSCR read ended in (rd),
\* the value it returned (cur), the register cache and the core:
\*   sig    the value returned
\*   wrote  whether DBGDSCR was written, and wr the value written
\*   cache  the register cache on return, and core the core's registers
\*   freed  whether target_list_free() ran
\*   seen   whether the read showed DBGDSCR.HALTED
halt_wait(rd, cur, cache, c) ==
    IF rd = "error"
    THEN [sig |-> SIGLOST, wrote |-> FALSE, wr |-> 0, cache |-> cache,
          core |-> c, freed |-> TRUE, seen |-> FALSE]
    ELSE IF rd = "timeout" \/ ~Test(cur, DBGDSCR_HALTED)
    THEN [sig |-> 0, wrote |-> FALSE, wr |-> 0, cache |-> cache,
          core |-> c, freed |-> FALSE, seen |-> FALSE]
    ELSE [sig |-> halt_signal(cur), wrote |-> TRUE,
          wr |-> SetBit(cur, DBGDSCR_ITREN),
          cache |-> regs_read_internal(c), core |-> regs_read_core(c),
          freed |-> FALSE, seen |-> TRUE]

cortexa_halt_wait(rd, f) ==
    /\ Facade
    /\ LET r == halt_wait(rd, dscr, reg_cache, cpu)
       IN /\ reg_cache' = r.cache
          /\ lost' = r.freed
          /\ dscr' = IF r.wrote THEN HwDscrWrite(dscr, r.wr) ELSE dscr
          /\ dscr_wr' = IF r.wrote THEN Ctl(r.wr) ELSE dscr_wr
          /\ rrq_open' = IF rd = "ok" THEN Observed(rrq_open, dscr) ELSE rrq_open
          /\ resumed' = (resumed /\ ~r.seen)
          /\ cpu' = r.core
          /\ last' = Returned("halt_wait", ToString(r.sig), r.wrote)
    /\ Xfer(f)
    /\ written' = IF ~halt_wait(rd, dscr, reg_cache, cpu).seen THEN written
                   ELSE IF written.stage = "resumed"
                   THEN [written EXCEPT !.stage = "observed"]
                   ELSE NoWrite
    /\ UNCHANGED <<stepped, ahb, hw_breakpoint_max, hw_breakpoint, bpc0, mmu_fault, bvr,
                   bcr, rrq, srst, pc, attached>>

(***************************************************************************)
(* Attach and detach.                                                      *)
(***************************************************************************)
\* The value cortexa_attach writes to DBGDSCR, from the value it read.
attach_dscr(cur) ==
    SetDccMode(SetBit(SetBit(cur, DBGDSCR_HDBGEN), DBGDSCR_ITREN),
               DBGDSCR_EXTDCCMODE_STALL)

\* Polls of the attach loop at which the core is first found halted and at
\* which the DBGDSCR read first raises an error: the first poll, the last
\* one, and never.
PollTimes == {1, AttachTries, AttachTries + 1}

\* What happens when the driver goes on using the target it has just freed:
\* its stores to the freed breakpoint table land, or are lost, or the
\* firmware faults.
UbOutcomes == {"cleared", "kept", "crash"}

\* The loop `while(!platform_srst_get_val() && !target_halt_wait(t) &&
\* --tries)`: t is tries on entry to the condition, i the number of the poll
\* about to be made.  The core is seen halted from poll h on (value dHalt,
\* before that dRun), the read raises an error from poll x on.  The result is
\* tries at the exit, the poll reached, and the conjunct that ended the loop.
RECURSIVE attach_loop(_, _, _, _, _, _, _)
attach_loop(reset_line, t, i, h, x, dRun, dHalt) ==
    IF reset_line
    THEN [tries |-> t, at |-> i, why |-> "srst"]
    ELSE LET r == halt_wait(IF i >= x THEN "error" ELSE "ok",
                            IF i >= h THEN dHalt ELSE dRun,
                            NoCache(RegNames), Regs(0, 0))
         IN IF r.sig # 0
            THEN [tries |-> t, at |-> i,
                  why |-> IF r.freed THEN "lost" ELSE "halt"]
            ELSE IF t - 1 = 0
            THEN [tries |-> 0, at |-> i, why |-> "tries"]
            ELSE attach_loop(reset_line, t - 1, i + 1, h, x, dRun, dHalt)

\* `if(!tries) return false;`
attach_result(t) == t # 0

NoBreakpoints == [i \in Slots |-> 0]

\* The body of cortexa_attach.  h says at which poll the running core is
\* first found in debug state, x at which poll the transport fails; where the
\* core halts (moe, c) is chosen when it does, and what the use of a freed
\* target does (ub) when the target was freed.  op is the facade operation
\* that runs the body: attach itself, or reset, which calls attach last and
\* drops its result; didr is what the DBGDIDR read before it ended in.
attach_body(op, didr, h, x, f) ==
    \E d0 \in {HwDscrWrite(dscr, attach_dscr(dscr))} :
    \E L \in {attach_loop(srst, AttachTries, 1,
                          IF Test(dscr, DBGDSCR_HALTED) THEN 1 ELSE h, x,
                          d0, HwHalted(d0, 0))} :
    LET was == Test(dscr, DBGDSCR_HALTED)
        polled == L.why # "srst"
        halted == polled /\ L.at >= (IF was THEN 1 ELSE h)
        freed == L.why = "lost"
        ok == attach_result(L.tries)
    IN \E moe \in (IF halted /\ ~was THEN MoeSet ELSE {0}),
          c \in (IF halted /\ ~was
                THEN {Follow(p, DOMAIN cpu) : p \in CpuSet} ELSE {cpu}),
          ub \in (IF freed THEN UbOutcomes ELSE {"cleared"}) :
       \E dNow \in {IF ~halted \/ was THEN d0 ELSE HwHalted(d0, moe)} :
       \E r \in {halt_wait(IF L.at >= x THEN "error" ELSE "ok", dNow,
                           reg_cache, c)} :
          LET seen == polled /\ r.seen
              stores == ok /\ (~freed \/ ub = "cleared")
              ret == IF freed /\ ub = "crash" THEN "crash" ELSE Bool(ok)
          IN /\ mmu_fault' = check_error_fault(mmu_fault)
             /\ dp_error' = (check_error_dp(ahb, dp_error) \/ f)
             /\ dscr' = IF seen THEN HwDscrWrite(dNow, r.wr) ELSE dNow
             /\ dscr_wr' = IF seen THEN Ctl(r.wr) ELSE Ctl(attach_dscr(dscr))
             /\ reg_cache' = IF seen THEN r.cache ELSE reg_cache
             /\ cpu' = IF seen THEN r.core ELSE c
             /\ rrq_open' = Observed(rrq_open, dscr)
             /\ lost' = freed
             /\ hw_breakpoint' = IF stores THEN NoBreakpoints ELSE hw_breakpoint
             /\ bcr' = IF stores THEN [i \in Slots |-> 0] ELSE bcr
             /\ srst' = IF stores THEN FALSE ELSE srst
             /\ attached' = IF op = "attach" THEN ok ELSE attached
             /\ resumed' = FALSE
             /\ last' = [Returned(op, IF op = "attach" THEN ret ELSE "void", TRUE)
                            EXCEPT !.why = L.why, !.rd = didr]
             /\ pc' = "idle"
             /\ written' = NoWrite
             /\ UNCHANGED <<stepped, ahb, hw_breakpoint_max, bpc0, bvr, rrq>>

cortexa_attach(h, x, f) ==
    /\ pc = "idle" /\ ~attached /\ ~lost
    /\ attach_body("attach", "none", h, x, f)

\* The value cortexa_detach writes to DBGDSCR, from the value it read.
detach_dscr(cur) == ClearBit(ClearBit(cur, DBGDSCR_HDBGEN), DBGDSCR_ITREN)

\* The value cortexa_detach writes to DBGDRCR.
detach_drcr == DBGDRCR_CSE + DBGDRCR_RRQ

cortexa_detach(f) ==
    /\ Facade
    /\ hw_breakpoint' = NoBreakpoints
    /\ bcr' = [i \in Slots |-> 0]
    /\ cpu' = regs_write_internal(cpu, reg_cache, Test(dscr, DBGDSCR_HALTED))
    /\ dscr_wr' = Ctl(detach_dscr(dscr))
    /\ dscr' = HwDrcrDscr(HwDscrWrite(dscr, detach_dscr(dscr)), detach_drcr)
    /\ rrq' = HwDrcrRrq(dscr, rrq, detach_drcr)
    /\ rrq_open' = Test(detach_drcr, DBGDRCR_RRQ)
    /\ attached' = FALSE
    /\ resumed' = FALSE
    /\ Xfer(f)
    /\ last' = Returned("detach", "void", TRUE)
    /\ written' = NoWrite
    /\ UNCHANGED <<stepped, ahb, hw_breakpoint_max, bpc0, mmu_fault, reg_cache, bvr, srst,
                   pc, lost>>

(***************************************************************************)
(* Resume.                                                                 *)
(***************************************************************************)
\* What cortexa_halt_resume writes to DBGBVR(0) and DBGBCR(0).
resume_bvr0(step, cache, tab) ==
    IF step THEN AndNot3(cache.r15) ELSE AndNot3(tab[0])

resume_bcr0(step, cache, saved) ==
    IF step
    THEN DBGBCR_INST_MISMATCH
         + bp_bas(cache.r15, IF Test(cache.cpsr, CPSR_THUMB) THEN 2 ELSE 4)
         + DBGBCR_EN
    ELSE saved

\* The DBGDSCR value of cortexa_halt_resume without `dbgdscr &= ~DBGDSCR_ITREN`.
resume_dscr_keeps_itren(step, cur) ==
    IF step THEN SetBit(cur, DBGDSCR_INTDIS) ELSE ClearBit(cur, DBGDSCR_INTDIS)

\* The DBGDSCR value of cortexa_halt_resume without `else dbgdscr &=
\* ~DBGDSCR_INTDIS`.
resume_dscr_never_unmasks(step, cur) ==
    ClearBit(IF step THEN SetBit(cur, DBGDSCR_INTDIS) ELSE cur, DBGDSCR_ITREN)

\* The value cortexa_halt_resume writes to DBGDSCR, from the value it read.
resume_dscr(step, cur) ==
    ClearBit(IF step THEN SetBit(cur, DBGDSCR_INTDIS)
                     ELSE ClearBit(cur, DBGDSCR_INTDIS),
             DBGDSCR_ITREN)

\* The value the loop of cortexa_halt_resume writes to DBGDRCR.
resume_drcr == DBGDRCR_CSE + DBGDRCR_RRQ

\* A loop of cortexa_halt_resume that runs its body once.
resume_done_once(v) == TRUE

\* The exit condition of the loop, on the DBGDSCR value just read.
resume_done(v) == Test(v, DBGDSCR_RESTARTED)

\* cortexa_halt_resume up to and including the first DBGDRCR write.
cortexa_halt_resume(step, f) ==
    /\ Facade
    /\ bvr' = [bvr EXCEPT ![0] = resume_bvr0(step, reg_cache, hw_breakpoint)]
    /\ bcr' = [bcr EXCEPT ![0] = resume_bcr0(step, reg_cache, bpc0)]
    /\ cpu' = regs_write_internal(cpu, reg_cache, Test(dscr, DBGDSCR_HALTED))
    /\ dscr_wr' = Ctl(resume_dscr(step, dscr))
    /\ dscr' = HwDrcrDscr(HwDscrWrite(dscr, resume_dscr(step, dscr)), resume_drcr)
    /\ rrq' = HwDrcrRrq(dscr, rrq, resume_drcr)
    /\ rrq_open' = Test(resume_drcr, DBGDRCR_RRQ)
    /\ Xfer(f)
    /\ resumed' = TRUE
    /\ pc' = "resume_read"
    /\ last' = [Entered("halt_resume") EXCEPT !.why = IF step THEN "step" ELSE "run"]
    /\ stepped' = step
    /\ written' = IF written.stage = "written" /\ Test(dscr, DBGDSCR_HALTED)
                   THEN [written EXCEPT !.stage = "resumed"]
                   ELSE NoWrite
    /\ UNCHANGED <<ahb, hw_breakpoint_max, hw_breakpoint, bpc0, mmu_fault,
                   reg_cache, srst, attached, lost>>

\* `dbgdscr = apb_read(t, DBGDSCR)` and the loop condition.
resume_read ==
    /\ pc = "resume_read"
    /\ rrq_open' = Observed(rrq_open, dscr)
    /\ IF resume_done(dscr)
       THEN /\ pc' = "idle"
            /\ last' = [last EXCEPT !.ret = "void"]
       ELSE /\ pc' = "resume_write"
            /\ UNCHANGED last
    /\ UNCHANGED <<stepped, written, ahb, hw_breakpoint_max, hw_breakpoint, bpc0, mmu_fault,
                   reg_cache, dscr, bvr, bcr, rrq, cpu, dp_error, srst, attached, resumed,
                   lost, dscr_wr>>

\* `apb_write(t, DBGDRCR, DBGDRCR_CSE | DBGDRCR_RRQ)` of a further iteration.
resume_write ==
    /\ pc = "resume_write"
    /\ dscr' = HwDrcrDscr(dscr, resume_drcr)
    /\ rrq' = HwDrcrRrq(dscr, rrq, resume_drcr)
    /\ rrq_open' = Test(resume_drcr, DBGDRCR_RRQ)
    /\ pc' = "resume_read"
    /\ UNCHANGED <<stepped, written, ahb, hw_breakpoint_max, hw_breakpoint, bpc0, mmu_fault,
                   reg_cache, bvr, bcr, cpu, dp_error, srst, attached, resumed, lost,
                   dscr_wr, last>>

(***************************************************************************)
(* Reset.                                                                  *)
(***************************************************************************)
\* mmu_fault after one target_mem_write32 of cortexa_reset: through the AHB
\* the translation can fault (x is the PAR fault bit), through the APB the
\* word store can abort (x is DBGDSCR.SDABORT_L).
reset_mem_fault(hasAhb, fault, x) ==
    IF hasAhb THEN va_to_pa_fault(fault, IF x THEN 1 ELSE 0)
    ELSE abort_fault(fault, IF x THEN DBGDSCR_SDABORT_L ELSE 0)

\* DBGDSCR after the system reset pulse: the core runs from its reset
\* vector; the debug registers are in the debug power domain and keep their
\* values.
HwSystemReset(cur) == HwRunning(cur)

\* cortexa_reset up to the first DBGDIDR read.
cortexa_reset(x1, x2, f) ==
    /\ Facade
    /\ mmu_fault' = reset_mem_fault(ahb, reset_mem_fault(ahb, mmu_fault, x1), x2)
    /\ LET v == dcc_restore(dscr)
       IN /\ dscr_wr' = IF ahb THEN dscr_wr ELSE Ctl(v)
          /\ dscr' = HwSystemReset(IF ahb THEN dscr ELSE HwDscrWrite(dscr, v))
    /\ rrq_open' = IF ahb THEN rrq_open ELSE Observed(rrq_open, dscr)
    /\ rrq' = FALSE
    /\ srst' = FALSE
    /\ Xfer(f)
    /\ pc' = "reset_poll"
    /\ last' = Entered("reset")
    /\ UNCHANGED <<stepped, written, ahb, hw_breakpoint_max, hw_breakpoint, bpc0, reg_cache, bvr,
                   bcr, cpu, attached, resumed, lost>>

\* The do-while around the DBGDIDR read is left when the timeout has expired
\* or the read did not raise EXCEPTION_ERROR.
reset_loop_exit(rd, expired) == expired \/ rd # "error"

\* `if (e.type == EXCEPTION_ERROR) raise_exception(...)`
reset_raises(rd) == rd = "error"

\* The last DBGDIDR read of the loop (rd, and whether the timeout had
\* expired after it) and what follows it: the exception, or attach.
reset_poll(rd, expired, h, x, f) ==
    /\ pc = "reset_poll"
    /\ reset_loop_exit(rd, expired)
    /\ IF reset_raises(rd)
       THEN /\ pc' = "idle"
            /\ last' = [Returned("reset", "exception", TRUE) EXCEPT !.rd = rd]
            /\ UNCHANGED <<stepped, written, ahb, hw_breakpoint_max, hw_breakpoint, bpc0,
                           mmu_fault, reg_cache, dscr, bvr, bcr, rrq, cpu,
                           dp_error, srst, attached, resumed, lost, dscr_wr, rrq_open>>
       ELSE attach_body("reset", rd, h, x, f)

(***************************************************************************)
(* The core.                                                               *)
(***************************************************************************)
\* The running core enters debug state at c for the reason moe (a halt
\* request, a breakpoint, ...).
CoreHalts(moe, c) ==
    /\ ~lost /\ ~srst /\ ~rrq
    /\ Test(dscr, DBGDSCR_HDBGEN)
    /\ ~Test(dscr, DBGDSCR_HALTED)
    /\ dscr' = HwHalted(dscr, moe)
    /\ cpu' = Follow(c, DOMAIN cpu)
    /\ written' = IF Follow(c, DOMAIN cpu) = cpu THEN written ELSE NoWrite
    /\ UNCHANGED <<stepped, ahb, hw_breakpoint_max, hw_breakpoint, bpc0, mmu_fault,
                   reg_cache, bvr, bcr, rrq, dp_error, srst, pc, attached, resumed, lost,
                   dscr_wr, rrq_open, last>>

\* The halted core serves the pending restart request.
CoreRestarts ==
    /\ ~lost /\ rrq
    /\ dscr' = HwRunning(dscr)
    /\ rrq' = FALSE
    /\ UNCHANGED <<stepped, written, ahb, hw_breakpoint_max, hw_breakpoint, bpc0, mmu_fault,
                   reg_cache, bvr, bcr, cpu, dp_error, srst, pc, attached, resumed, lost,
                   dscr_wr, rrq_open, last>>

(***************************************************************************)
(* Initial state: cortexa_probe has returned.                              *)
(***************************************************************************)
\* Comparators a previous debugger left enabled.
StaleBcr == {0, DBGBCR_BAS_ANY + DBGBCR_EN}

\* The state in which the specification follows the registers in names.
InitFollowing(names) ==
    /\ ahb \in BOOLEAN
    /\ hw_breakpoint_max \in {n + 1 : n \in 0 .. MaxBrps}
    /\ hw_breakpoint = [i \in Slots |-> 0]
    /\ bpc0 = 0
    /\ mmu_fault = FALSE
    /\ reg_cache = NoCache(names)
    /\ dscr = DBGDSCR_RESTARTED
    /\ bvr = [i \in Slots |-> 0]
    /\ \E stale \in StaleBcr : bcr = [i \in Slots |-> stale]
    /\ rrq = FALSE
    /\ cpu = Follow(Regs(4, 19), names)
    /\ dp_error = FALSE
    /\ srst \in BOOLEAN
    /\ pc = "idle"
    /\ attached = FALSE
    /\ lost = FALSE
    /\ dscr_wr = 0
    /\ rrq_open = FALSE
    /\ resumed = FALSE
    /\ stepped = FALSE
    /\ written = NoWrite
    /\ last = Returned("probe", "true", TRUE)

Init == InitFollowing(ControlRegs)

(***************************************************************************)
(* Specifications.                                                         *)
(***************************************************************************)
\* Whether a transaction leaves the debug port's error state set.
FaultSet == BOOLEAN

\* Attach, detach, halt, resume and reset, with transactions that leave the
\* error state f \in Faults and attach loops whose polls change at Polls.
RunControl(Faults, Polls) ==
    \/ \E h \in Polls, x \in Polls, f \in Faults : cortexa_attach(h, x, f)
    \/ \E f \in Faults : cortexa_detach(f)
    \/ \E rd \in ReadResults, f \in Faults : cortexa_halt_wait(rd, f)
    \/ \E step \in BOOLEAN, f \in Faults : cortexa_halt_resume(step, f)
    \/ resume_read
    \/ resume_write
    \/ \E x1 \in BOOLEAN, x2 \in BOOLEAN, f \in Faults : cortexa_reset(x1, x2, f)
    \/ \E rd \in ReadResults, expired \in BOOLEAN, h \in Polls, x \in Polls,
          f \in Faults : reset_poll(rd, expired, h, x, f)

\* The core runs into debug events and serves restart requests.
Core ==
    \/ \E moe \in MoeSet, c \in CpuSet : CoreHalts(moe, c)
    \/ CoreRestarts

\* Memory access and error reporting, at the addresses Addrs and with abort
\* checks Ats reading SDABORT_L set.
Memory(Faults, Addrs, Ats) ==
    \/ cortexa_check_error
    \/ \E src \in Addrs, par \in ParSet, f \in Faults :
          cortexa_mem_read(src, MaxLen, FALSE, par, f)
    \/ \E dest \in Addrs, par \in ParSet, f \in Faults :
          cortexa_mem_write(dest, MaxLen, FALSE, par, f)
    \/ \E src \in Addrs, len \in LenSet, abort \in AbortSet, f \in Faults :
          cortexa_slow_mem_read(src, len, abort, "ok", f)
    \/ \E dest \in Addrs, len \in {0} \cup LenSet, at \in Ats,
          f \in Faults : cortexa_slow_mem_write(dest, len, at, f)
    \/ \E f \in Faults : cortexa_halt_request(f)

\* Breakpoints, on a transport that does not fail.
Breakpoints ==
    \/ \E addr \in AddrSet, len \in LenSet : cortexa_set_hw_bp(addr, len, FALSE)
    \/ \E addr \in AddrSet, len \in LenSet : cortexa_clear_hw_bp(addr, len, FALSE)

\* Run control, memory access and error reporting, with a transport that
\* can fail.
Next ==
    RunControl(FaultSet, PollTimes) \/ Memory(FaultSet, {0}, {1, MaxLen + 1})
        \/ Core

Spec == Init /\ [][Next]_vars

\* Run control and breakpoints, on a part with an AHB access port that is
\* found out of reset with its comparators disabled.
InitBp == Init /\ ahb /\ ~srst /\ bcr = [i \in Slots |-> 0]

NextBp == RunControl({FALSE}, {1, AttachTries + 1}) \/ Breakpoints \/ Core

SpecBp == InitBp /\ [][NextBp]_vars

\* Every operation of the facade, on a part with one comparator that is
\* found out of reset, over a transport that does not fail.
InitAll ==
    Init /\ hw_breakpoint_max = 1 /\ ~srst /\ bcr = [i \in Slots |-> 0]

NextAll ==
    RunControl({FALSE}, {1, AttachTries + 1})
        \/ Memory({FALSE}, {0}, {1, MaxLen + 1}) \/ Breakpoints \/ Core

SpecAll == InitAll /\ [][NextAll]_vars

\* Register access: every register of the core is followed, on a part with
\* an AHB access port and one comparator, over a transport that does not
\* fail.  The core halts where the program has taken it, or where it was
\* restarted when no instruction has run.
InitReg ==
    /\ InitFollowing(RegNames)
    /\ ahb /\ hw_breakpoint_max = 1 /\ ~srst /\ bcr = [i \in Slots |-> 0]

NextReg ==
    \/ cortexa_attach(1, AttachTries + 1, FALSE)
    \/ cortexa_halt_request(FALSE)
    \/ cortexa_halt_wait("ok", FALSE)
    \/ \E step \in BOOLEAN : cortexa_halt_resume(step, FALSE)
    \/ resume_read
    \/ resume_write
    \/ \E n \in GpNames, v \in ValSet : cortexa_regs_write(n, v)
    \/ cortexa_regs_read
    \/ \E n \in GpNames, v \in ValSet : write_gpreg(n, v, FALSE)
    \/ \E c \in CpuSet \cup {cpu} : CoreHalts(0, c)
    \/ CoreRestarts

SpecReg == InitReg /\ [][NextReg]_vars

\* Scratch registers: every register of the core is followed while the
\* debugger reads and writes memory, on a part with one comparator, over a
\* transport that does not fail.
InitScratch ==
    /\ InitFollowing(RegNames)
    /\ hw_breakpoint_max = 1 /\ ~srst /\ bcr = [i \in Slots |-> 0]

NextScratch ==
    \/ cortexa_attach(1, AttachTries + 1, FALSE)
    \/ cortexa_detach(FALSE)
    \/ cortexa_halt_wait("ok", FALSE)
    \/ \E step \in BOOLEAN : cortexa_halt_resume(step, FALSE)
    \/ resume_read
    \/ resume_write
    \/ \E par \in ParSet : cortexa_mem_read(0, MaxLen, FALSE, par, FALSE)
    \/ \E par \in ParSet : cortexa_mem_write(0, MaxLen, FALSE, par, FALSE)
    \/ \E abort \in AbortSet : cortexa_slow_mem_read(7, 2, abort, "ok", FALSE)
    \/ \E len \in LenSet, at \in {1, MaxLen + 1} :
          cortexa_slow_mem_write(0, len, at, FALSE)
    \/ \E c \in CpuSet : CoreHalts(0, c)
    \/ CoreRestarts

SpecScratch == InitScratch /\ [][NextScratch]_vars

\* The halt snapshot at the restart addresses of PcSet, on a part with an AHB
\* access port and one comparator, over a transport that does not fail.
InitPc == InitBp /\ hw_breakpoint_max = 1

NextPc ==
    \/ \E h \in {1, AttachTries + 1} : cortexa_attach(h, AttachTries + 1, FALSE)
    \/ \E rd \in ReadResults : cortexa_halt_wait(rd, FALSE)
    \/ \E step \in BOOLEAN : cortexa_halt_resume(step, FALSE)
    \/ resume_read
    \/ resume_write
    \/ \E moe \in MoeSet, c \in PcSet : CoreHalts(moe, c)
    \/ CoreRestarts

SpecPc == InitPc /\ [][NextPc]_vars

\* The DCC mode of the debug channel: slow memory reads and writes whose
\* DBGDTRTX read completes, times out or raises an error, on a part without
\* an AHB access port and with one comparator.
InitDcc == InitAll /\ ~ahb

NextDcc ==
    \/ cortexa_attach(1, AttachTries + 1, FALSE)
    \/ cortexa_detach(FALSE)
    \/ cortexa_halt_request(FALSE)
    \/ cortexa_halt_wait("ok", FALSE)
    \/ \E step \in BOOLEAN : cortexa_halt_resume(step, FALSE)
    \/ resume_read
    \/ resume_write
    \/ \E abort \in AbortSet, rd \in ReadResults :
          cortexa_slow_mem_read(0, MaxLen, abort, rd, FALSE)
    \/ \E len \in {0} \cup LenSet, at \in {1, MaxLen + 1} :
          cortexa_slow_mem_write(0, len, at, FALSE)
    \/ cortexa_check_error
    \/ \E c \in CpuSet : CoreHalts(0, c)
    \/ CoreRestarts

SpecDcc == InitDcc /\ [][NextDcc]_vars

\* Destinations on and off a word boundary.
ByteAddrs == {0, 1}

\* Slow memory writes of every length up to MaxLen that abort at any of
\* their stores or at none: pc, cpsr and sp are followed, on a part
\* without an AHB access port, over a transport that does not fail.
InitBytes ==
    /\ InitFollowing(ControlRegs \cup {"r13"})
    /\ ~ahb /\ hw_breakpoint_max = 1 /\ ~srst /\ bcr = [i \in Slots |-> 0]

NextBytes ==
    \/ cortexa_attach(1, AttachTries + 1, FALSE)
    \/ cortexa_halt_wait("ok", FALSE)
    \/ cortexa_halt_resume(FALSE, FALSE)
    \/ resume_read
    \/ resume_write
    \/ \E dest \in ByteAddrs, len \in 0 .. MaxLen, at \in AbortAt :
          cortexa_slow_mem_write(dest, len, at, FALSE)
    \/ cortexa_check_error
    \/ \E c \in CpuSet : CoreHalts(0, c)
    \/ CoreRestarts

SpecBytes == InitBytes /\ [][NextBytes]_vars

\* Addresses at both ends of the address space, and lengths that cover no
\* byte, part of a line, a whole line and more than one line.
CacheAddrs == {0, 4, 31, 32, -64, -36, -32, -4, -1}

CacheLens == {0, 1, 4, 32, 33, 64}

\* Fast memory access on a part with an AHB access port and one comparator,
\* over a transport that does not fail, in a build with a 32-bit and in one
\* with a 64-bit size_t.
InitCache == InitBp /\ hw_breakpoint_max = 1

NextCache ==
    \/ cortexa_attach(1, AttachTries + 1, FALSE)
    \/ cortexa_halt_wait("ok", FALSE)
    \/ cortexa_halt_resume(FALSE, FALSE)
    \/ resume_read
    \/ resume_write
    \/ \E src \in CacheAddrs, len \in CacheLens, wide \in BOOLEAN, par \in ParSet :
          cortexa_mem_read(src, len, wide, par, FALSE)
    \/ \E dest \in CacheAddrs, len \in CacheLens, wide \in BOOLEAN, par \in ParSet :
          cortexa_mem_write(dest, len, wide, par, FALSE)
    \/ \E c \in CpuSet : CoreHalts(0, c)
    \/ CoreRestarts

SpecCache == InitCache /\ [][NextCache]_vars

\* The resume loop against a core that serves every restart request it is
\* left the time to serve: the loop reads and writes as long as it is in the
\* loop, and the core does not always delay its restart until after the
\* driver's next DBGDSCR read.
InitLive == InitBp /\ hw_breakpoint_max = 1

NextLive ==
    \/ \E h \in {1, AttachTries + 1} : cortexa_attach(h, AttachTries + 1, FALSE)
    \/ \E rd \in ReadResults : cortexa_halt_wait(rd, FALSE)
    \/ \E step \in BOOLEAN : cortexa_halt_resume(step, FALSE)
    \/ resume_read
    \/ resume_write
    \/ Core

LiveSpec ==
    /\ InitLive
    /\ [][NextLive]_vars
    /\ WF_vars(resume_read)
    /\ WF_vars(resume_write)
    /\ SF_vars(CoreRestarts /\ pc = "resume_read")

(***************************************************************************)
(* Properties.                                                             *)
(***************************************************************************)
\* C1 (breakpoint capacity, under SpecBp): a fresh attach leaves no slot
\* live; a set_hw_bp succeeds and makes one more slot live whenever fewer
\* than hw_breakpoint_max slots are live, so the first N calls succeed and
\* so does the call after a clear that freed a live slot; it returns -1
\* when all slots are live and then changes neither hw_breakpoint[], bpc0
\* nor any DBGBVR/DBGBCR.
C1_Capacity ==
    /\ [](last.op = "attach" /\ Facade => Live(hw_breakpoint) = 0)
    /\ [][\A addr \in AddrSet, len \in LenSet :
            cortexa_set_hw_bp(addr, len, FALSE) =>
                IF Live(hw_breakpoint) < hw_breakpoint_max
                THEN /\ last'.ret = "0"
                     /\ Live(hw_breakpoint') = Live(hw_breakpoint) + 1
                ELSE /\ last'.ret = "-1"
                     /\ UNCHANGED <<hw_breakpoint, bpc0, bvr, bcr>>]_vars

\* A set_hw_bp has failed on a part with several comparators, all live.
C1_Witness ==
    /\ last.op = "set_hw_bp" /\ last.ret = "-1"
    /\ hw_breakpoint_max > 1
    /\ Live(hw_breakpoint) = hw_breakpoint_max

\* C2 (clear frees one slot and is idempotent, under SpecBp): a clear_hw_bp
\* that returns 0 lowers the number of live slots by exactly one, and after
\* it no slot matches the address any more, so that a second clear of the
\* same address returns -1.
C2_ClearFreesOne ==
    [][\A addr \in AddrSet, len \in LenSet :
         (cortexa_clear_hw_bp(addr, len, FALSE) /\ last'.ret = "0") =>
             /\ Live(hw_breakpoint') = Live(hw_breakpoint) - 1
             /\ FindAddr(hw_breakpoint', hw_breakpoint_max, addr)
                    = hw_breakpoint_max]_vars

\* C3 (hw_breakpoint[0] and bpc0 agree, under SpecBp): bpc0 has its enable
\* bit set exactly when hw_breakpoint[0] is live and is 0 when the slot is
\* free, and a halt_resume(false) leaves DBGBCR(0) enabled only when slot 0
\* holds a breakpoint.
C3_Bpc0Agrees ==
    ~lost =>
        /\ Test(bpc0, DBGBCR_EN) <=> (hw_breakpoint[0] % 2 = 1)
        /\ hw_breakpoint[0] % 2 = 0 => bpc0 = 0
        /\ (last.op = "halt_resume" /\ last.why = "run" /\ Test(bcr[0], DBGBCR_EN))
               => hw_breakpoint[0] % 2 = 1

\* C4 (attach postcondition, under Spec): attach returns true exactly when
\* one of its polls reported a halt, and then every hw_breakpoint[i] and
\* every DBGBCR(i) is 0; it does not return true when the loop was left
\* because system reset is asserted, because the ten polls are used up, or
\* because halt_wait reported the target lost.
C4_AttachPostcondition ==
    last.op = "attach" =>
        /\ last.ret = "true" <=> last.why = "halt"
        /\ last.ret = "true" =>
               /\ hw_breakpoint = NoBreakpoints
               /\ bcr = [i \in Slots |-> 0]

\* C5 as stated (under SpecAll): throughout an attached session the last
\* value written to DBGDSCR has HDBGEN and ITREN set.
C5_HdbgenItrenAlways ==
    attached /\ ~lost =>
        /\ Test(dscr_wr, DBGDSCR_HDBGEN)
        /\ Test(dscr_wr, DBGDSCR_ITREN)

\* C5 (HDBGEN and ITREN through a session, under SpecAll): throughout an
\* attached session the last value written to DBGDSCR has HDBGEN set, and
\* has ITREN set except from a halt_resume to the next reported halt (or
\* re-attach), where ITREN is clear; after detach both bits are clear.
C5_HdbgenItren ==
    /\ attached /\ ~lost =>
           /\ Test(dscr_wr, DBGDSCR_HDBGEN)
           /\ Test(dscr_wr, DBGDSCR_ITREN) <=> ~resumed
    /\ last.op = "detach" =>
           /\ ~Test(dscr_wr, DBGDSCR_HDBGEN)
           /\ ~Test(dscr_wr, DBGDSCR_ITREN)

\* A memory operation has run on the slow path while the target was resumed.
C5_Witness ==
    /\ attached /\ ~lost /\ resumed /\ ~ahb
    /\ pc = "idle" /\ last.op = "mem_read"

\* C6 (mmu_fault is sticky and read-and-clear, under Spec): a set mmu_fault
\* is reset only by a step that calls check_error (check_error itself, or
\* attach, which calls it first); a check_error that finds it set returns
\* true, and on its return a further check_error would return false.
C6_StickyReadAndClear ==
    /\ [](last.op = "check_error" => ~check_error_ret(ahb, dp_error, mmu_fault))
    /\ [][/\ (mmu_fault /\ ~mmu_fault') =>
                 \/ cortexa_check_error
                 \/ last'.op = "attach"
                 \/ (pc = "reset_poll" /\ pc' = "idle")
          /\ (cortexa_check_error /\ mmu_fault) => last'.ret = "true"]_vars

\* check_error has returned true for a fault on a part without AHB, where
\* the fault flag is all it reports.
C6_Witness ==
    /\ last.op = "check_error" /\ last.ret = "true"
    /\ ~ahb /\ ~mmu_fault

\* C7 (a transport failure is observed by check_error, under Spec): a
\* check_error called while the debug port's error state is set returns
\* true, with an AHB access port and without.
C7_TransportErrorObserved ==
    [][(cortexa_check_error /\ dp_error) => last'.ret = "true"]_vars

\* C8 (halt_resume returns after RESTARTED, under LiveSpec): every DBGDSCR
\* read of the loop follows a write of CSE|RRQ, halt_resume returns only
\* when such a read showed RESTARTED, and the loop terminates.
C8_ResumeObservesRestart ==
    /\ [](pc = "resume_read" => rrq_open)
    /\ [](pc = "idle" /\ last.op = "halt_resume" => ~rrq_open)
    /\ (pc = "resume_read" ~> pc = "idle")

\* halt_resume has returned from a loop that restarted a halted core.
C8_Witness ==
    /\ pc = "idle" /\ last.op = "halt_resume" /\ last.ret = "void"
    /\ ~Test(dscr, DBGDSCR_HALTED) /\ ~rrq

\* C9 (no restart request is fire-and-forget, under Spec): when halt_resume
\* or detach returns, a DBGDSCR read made after its last write of RRQ has
\* shown RESTARTED.
C9_NoFireAndForget ==
    (pc = "idle" /\ last.op \in {"halt_resume", "detach"}) => ~rrq_open

\* C10 (halt_wait result, under Spec): halt_wait returns 29 exactly when its
\* DBGDSCR read raised an error, and then frees the target and writes
\* nothing; it returns 0 exactly when the read timed out or showed HALTED
\* clear, and then writes nothing and leaves reg_cache alone; when the read
\* shows HALTED it writes DBGDSCR with ITREN set, takes the snapshot of the
\* core and returns 2 for MOE 0 and 5 for every other MOE.
C10_HaltWaitResult ==
    [][\A rd \in ReadResults, f \in FaultSet :
         cortexa_halt_wait(rd, f) =>
             LET halted == Test(dscr, DBGDSCR_HALTED)
                 moe == (dscr \div 4) % 16
             IN /\ last'.ret = "29" <=> rd = "error"
                /\ rd = "error" => lost' /\ ~last'.wrote
                /\ last'.ret = "0" <=> (rd = "timeout" \/ (rd = "ok" /\ ~halted))
                /\ last'.ret = "0" =>
                       /\ ~last'.wrote
                       /\ UNCHANGED <<reg_cache, dscr, dscr_wr, bvr, bcr>>
                /\ (rd = "ok" /\ halted) =>
                       /\ last'.wrote
                       /\ Test(dscr_wr', DBGDSCR_ITREN)
                       /\ reg_cache'.r15 = cpu.pc /\ reg_cache'.cpsr = cpu.cpsr
                       /\ last'.ret = IF moe = 0 THEN "2" ELSE "5"]_vars

\* halt_wait has reported a halt that was not requested.
C10_Witness ==
    /\ last.op = "halt_wait" /\ last.ret = "5"
    /\ Test(dscr, DBGDSCR_HALTED) /\ (dscr \div 4) % 16 = 15

\* C11 as stated (register round trip through the proxy, under SpecReg): a
\* value v written to register n of a halted target by write_gp or by
\* regs_write is what read_gp(n) returns and what the regs_read buffer holds
\* for r[n] after halt_resume and the next reported halt, when the program
\* has not run in between.
C11_ProxyRoundTrip ==
    (written.stage = "observed" /\ last.op = "halt_wait") =>
        /\ cpu[written.reg] = written.val
        /\ reg_cache[written.reg] = written.val

\* C11 (register round trip through the cache, under SpecReg): after
\* halt_resume and the next reported halt, with the program not run in
\* between, the regs_read buffer holds for r[n] the value reg_cache held for
\* it when halt_resume ran: v when regs_write stored v, and the value cached
\* before when v was only written to the core by write_gp; read_gp(n)
\* returns that value too for every n but the scratch registers r0 and r1.
C11_CacheRoundTrip ==
    (written.stage = "observed" /\ last.op = "halt_wait") =>
        /\ reg_cache[written.reg] = written.was
        /\ written.via = "cache" => written.was = written.val
        /\ written.reg \notin {"r0", "r1"} => cpu[written.reg] = written.was

\* 0xdeadbeef stored in a register by regs_write has been read back in the
\* snapshot of the next halt.
C11_Witness ==
    /\ written.stage = "observed" /\ last.op = "halt_wait"
    /\ written.via = "cache" /\ written.reg = "rn"
    /\ written.val = -559038737 /\ reg_cache.rn = -559038737

\* C12 (register restore, under SpecScratch): when halt_resume or detach
\* has flushed the register cache to a core in debug state, every register
\* of the core (r0..r14, pc, CPSR, FPSCR, d0..d15) equals its reg_cache
\* entry, whatever r0, r1 and r13 held after the snapshot, the translations,
\* the cache maintenance and the slow reads and writes made while halted.
C12_FlushRestores ==
    [][((\E step \in BOOLEAN : cortexa_halt_resume(step, FALSE))
            \/ cortexa_detach(FALSE))
        /\ Test(dscr, DBGDSCR_HALTED)
        => \A n \in RegNames :
               cpu'[n] = reg_cache[IF n = "pc" THEN "r15" ELSE n]]_vars

\* halt_resume has flushed the cache after a memory access that faulted had
\* used r0 as scratch: r0 and r13 hold the values of the snapshot again.
C12_Witness ==
    /\ last.op = "halt_resume" /\ pc = "resume_read" /\ mmu_fault
    /\ reg_cache.r13 = 13 /\ reg_cache.r0 = 10
    /\ \A n \in RegNames : cpu[n] = reg_cache[IF n = "pc" THEN "r15" ELSE n]

\* C13 (pc adjustment, under SpecPc): when halt_wait reports a halt, the
\* cached r[15] is (raw_pc - 4) mod 2^32 if bit 5 of the CPSR cached by the
\* same snapshot is set and (raw_pc - 8) mod 2^32 otherwise, raw_pc being
\* what `mov r0, pc` delivered; the offset is taken off once, so that adding
\* it back gives raw_pc, and the cached CPSR is the one of the core.
C13_PcAdjusted ==
    [][\A rd \in ReadResults :
         (cortexa_halt_wait(rd, FALSE) /\ rd = "ok" /\ Test(dscr, DBGDSCR_HALTED))
         => LET raw == RawPc(cpu)
                adj == IF Test(reg_cache'.cpsr, CPSR_THUMB) THEN 4 ELSE 8
            IN /\ reg_cache'.cpsr = cpu.cpsr
               /\ reg_cache'.r15 = Sub32(raw, adj)
               /\ Add32(reg_cache'.r15, adj) = raw
               /\ reg_cache'.r15 = cpu.pc]_vars

\* A halt in ARM state at 0xfffffffc has been reported: `mov r0, pc`
\* delivered 4, and the cached r[15] is 0xfffffffc.
C13_Witness ==
    /\ last.op = "halt_wait" /\ last.ret \in {"2", "5"}
    /\ cpu.pc = -4 /\ ~Test(cpu.cpsr, CPSR_THUMB) /\ RawPc(cpu) = 4
    /\ reg_cache.r15 = -4

\* C14 (single-step use of comparator 0, under SpecBp): halt_resume(true)
\* writes DBGBVR(0) = cached pc & ~3 and DBGBCR(0) = INST_MISMATCH | BAS | EN
\* with the BAS of a 2-byte instruction in Thumb state and of a 4-byte one
\* otherwise; halt_resume(false) writes DBGBVR(0) = hw_breakpoint[0] & ~3 and
\* DBGBCR(0) = bpc0; neither changes hw_breakpoint[] or bpc0; and what
\* halt_resume(false) leaves in slot 0 is the debugger's breakpoint, or a
\* disabled comparator when the debugger has none in slot 0.
C14_StepComparator ==
    [][\A step \in BOOLEAN :
         cortexa_halt_resume(step, FALSE) =>
             /\ UNCHANGED <<hw_breakpoint, bpc0>>
             /\ step =>
                    /\ bvr'[0] = AndNot3(reg_cache.r15)
                    /\ bcr'[0] = DBGBCR_INST_MISMATCH + DBGBCR_EN
                                   + bp_bas(reg_cache.r15,
                                            IF Test(reg_cache.cpsr, CPSR_THUMB)
                                            THEN 2 ELSE 4)
             /\ ~step =>
                    /\ bvr'[0] = AndNot3(hw_breakpoint[0])
                    /\ bcr'[0] = bpc0
                    /\ hw_breakpoint[0] % 2 = 0 => ~Test(bcr'[0], DBGBCR_EN)]_vars

\* C15 (reset recovery, under SpecAll): when reset has returned normally,
\* its re-attach has observed a halt and the core is in debug state, every
\* hw_breakpoint[i] and every DBGBCR(i) is 0, and the DBGDSCR value last
\* written has HDBGEN set.
C15_ResetRecovers ==
    (last.op = "reset" /\ last.ret = "void") =>
        /\ last.why = "halt"
        /\ Test(dscr, DBGDSCR_HALTED)
        /\ \A i \in Slots : hw_breakpoint[i] = 0 /\ bcr[i] = 0
        /\ Test(dscr_wr, DBGDSCR_HDBGEN)

\* C16 (reset reconnection, under Spec): reset goes on to its re-attach only
\* after a DBGDIDR read that completed without an exception, and when its
\* last DBGDIDR read raised an exception it propagates the exception and
\* does not call attach.
C16_ReattachAfterCleanRead ==
    last.op = "reset" =>
        /\ last.ret = "void" => last.rd = "ok"
        /\ last.rd \in {"timeout", "error"} => last.ret = "exception"

\* The cache lines that hold a byte of [addr, addr + len), the addresses
\* taken modulo 2^32.
LinesOf(addr, len) == {LineOf(Add32(addr, k)) : k \in 0 .. (len - 1)}

\* C17 (cache maintenance of the fast path, under SpecCache): for every addr
\* and len, mem_read and mem_write return, having issued the cache operation
\* once for each cache line that holds a byte of [addr, addr + len) and for
\* no other line, also when addr + len reaches or passes 2^32 and when len
\* is 0.
C17_EveryLineOnce ==
    [][\A addr \in CacheAddrs, len \in CacheLens, wide \in BOOLEAN, par \in ParSet :
         (cortexa_mem_read(addr, len, wide, par, FALSE)
              \/ cortexa_mem_write(addr, len, wide, par, FALSE))
         => /\ last'.ret = "void"
            /\ {last'.lines[i] : i \in DOMAIN last'.lines} = LinesOf(addr, len)
            /\ Len(last'.lines) = Cardinality(LinesOf(addr, len))]_vars

\* C18 (slow byte write, under SpecBytes): a slow write with len = 0 does no
\* bus transaction.  A slow write whose dest or len is not a multiple of 4
\* checks SDABORT_L after every store; when the check after store number
\* `at` is the first to find the abort, it has issued `at` stores and no
\* more, has written DRCR.CSE and mmu_fault is set; when no check finds an
\* abort it has issued len stores, at increasing addresses that leave sp at
\* dest + len, and mmu_fault is as it was.
C18_ByteWriteStopsAtAbort ==
    [][\A dest \in ByteAddrs, len \in 0 .. MaxLen, at \in AbortAt :
         (/\ last'.op = "mem_write" /\ last'.len = len
          /\ cortexa_slow_mem_write(dest, len, at, FALSE))
         => IF len = 0
            THEN /\ ~last'.wrote
                 /\ UNCHANGED <<dscr, dscr_wr, mmu_fault, dp_error, cpu, rrq_open>>
            ELSE IF dest % 4 # 0 \/ len % 4 # 0
            THEN /\ last'.checks = last'.strb
                 /\ IF at <= len
                    THEN last'.strb = at /\ last'.cse /\ mmu_fault'
                    ELSE /\ last'.strb = len /\ ~last'.cse
                         /\ mmu_fault' = mmu_fault
                         /\ Test(dscr, DBGDSCR_HALTED)
                                => cpu'.r13 = Add32(dest, len)
            ELSE TRUE]_vars

\* A byte write of more than two bytes has aborted at its second store.
C18_Witness ==
    /\ last.op = "mem_write" /\ last.cse
    /\ last.strb = 2 /\ last.len > 2
    /\ mmu_fault

\* C19 (interrupt masking, under SpecAll): the value halt_resume writes to
\* DBGDSCR has INTDIS set when step is true and clear when it is false,
\* whatever INTDIS was before; and whenever the last halt_resume was not a
\* step and the core is not halted, DBGDSCR.INTDIS is clear.
C19_IntdisFollowsStep ==
    /\ [][\A step \in BOOLEAN :
            cortexa_halt_resume(step, FALSE)
            => /\ Test(dscr_wr', DBGDSCR_INTDIS) <=> step
               /\ Test(dscr', DBGDSCR_INTDIS) <=> step]_vars
    /\ []((~stepped /\ ~Test(dscr, DBGDSCR_HALTED))
             => ~Test(dscr, DBGDSCR_INTDIS))

\* halt_resume(false) has returned and the core runs with INTDIS clear.
C19_Witness ==
    /\ last.op = "halt_resume" /\ last.ret = "void" /\ last.why = "run"
    /\ ~stepped /\ resumed
    /\ ~Test(dscr, DBGDSCR_HALTED) /\ Test(dscr, DBGDSCR_RESTARTED)
    /\ ~Test(dscr, DBGDSCR_INTDIS) /\ ~Test(dscr_wr, DBGDSCR_INTDIS)

\* C20 (DCC mode, under SpecDcc): once attach has succeeded, whenever the
\* driver is in no operation the EXTDCCMODE field of the value it wrote to
\* DBGDSCR last is stall; a slow read and a slow word write leave it stall,
\* also when the access aborted; halt_wait, halt_resume and a byte write do
\* not change it.
C20_StallBetweenOperations ==
    (attached /\ pc = "idle")
        => Field(dscr_wr, DBGDSCR_EXTDCCMODE_STALL, 4) = DBGDSCR_EXTDCCMODE_STALL

====
